---- MODULE Spec2Model ----
(***************************************************************************)
(* Model of the Old Bailey case search application (src/src/app.py):      *)
(* the paginated search fetch (fetch_data), date extraction from titles   *)
(* (extract_date, extract_year), per-record detail lookup                  *)
(* (fetch_detailed_data), bulk enrichment (fetch_all_details), the export  *)
(* (to_excel) and the Streamlit script main() with its session state.      *)
(*                                                                         *)
(* Strings are modelled as sequences of one-character strings, so that     *)
(* the regular expressions, strptime/strftime, slicing, int() and the      *)
(* string comparison of Series.between are computed character by           *)
(* character as the code computes them.                                    *)
(***************************************************************************)
EXTENDS Integers, Sequences, FiniteSets, TLC

(***************************************************************************)
(* Bounds of the model                                                     *)
(***************************************************************************)
MaxPages == 2

MaxRecs == 2

(***************************************************************************)
(* Values of the Python runtime                                            *)
(***************************************************************************)
\* Python values that are not always of one type are records: None, a raised
\* exception, an int where None may stand instead, a date
None == [none |-> TRUE]

Raise(e) == [raise |-> e]

PyInt(n) == [int |-> n]

ValueError == "ValueError"

KeyError == "KeyError"

IndexError == "IndexError"

(***************************************************************************)
(* Characters                                                              *)
(***************************************************************************)
\* regex class \d among the characters of code point up to 255, the characters of
\* this model: the ten ASCII digits
DigitChars == <<"0", "1", "2", "3", "4", "5", "6", "7", "8", "9">>

IsDigit(c) == \E i \in 1..10 : DigitChars[i] = c

DigitVal(c) == (CHOOSE i \in 1..10 : DigitChars[i] = c) - 1

UpperChars == <<"A", "B", "C", "D", "E", "F", "G", "H", "I", "J", "K", "L", "M",
                "N", "O", "P", "Q", "R", "S", "T", "U", "V", "W", "X", "Y", "Z">>

LowerChars == <<"a", "b", "c", "d", "e", "f", "g", "h", "i", "j", "k", "l", "m",
                "n", "o", "p", "q", "r", "s", "t", "u", "v", "w", "x", "y", "z">>

IsUpper(c) == \E i \in 1..26 : UpperChars[i] = c

IsLower(c) == \E i \in 1..26 : LowerChars[i] = c

\* str.lower() on one character (re.IGNORECASE of _strptime)
ToLower(c) == IF IsUpper(c) THEN LowerChars[CHOOSE i \in 1..26 : UpperChars[i] = c] ELSE c

\* regex class \s of a str pattern, among the characters of code point up to 255:
\* space, \t, \n, \r, \f, and the code points 11, 28-31, 133 and 160
SpaceChars == {" ", "\t", "\n", "\r", "\f", "", "", "", "", "", "", " "}

IsSpace(c) == c \in SpaceChars

\* the letters and numbers of Latin-1 above code point 127
Latin1WordChars == {"ª", "²", "³", "µ", "¹", "º", "¼", "½", "¾", "À", "Á", "Â",
                    "Ã", "Ä", "Å", "Æ", "Ç", "È", "É", "Ê", "Ë", "Ì", "Í", "Î",
                    "Ï", "Ð", "Ñ", "Ò", "Ó", "Ô", "Õ", "Ö", "Ø", "Ù", "Ú", "Û",
                    "Ü", "Ý", "Þ", "ß", "à", "á", "â", "ã", "ä", "å", "æ", "ç",
                    "è", "é", "ê", "ë", "ì", "í", "î", "ï", "ð", "ñ", "ò", "ó",
                    "ô", "õ", "ö", "ø", "ù", "ú", "û", "ü", "ý", "þ", "ÿ"}

\* regex class \w of a str pattern, among the characters of code point up to 255
IsWord(c) == IsDigit(c) \/ IsUpper(c) \/ IsLower(c) \/ c = "_" \/ c \in Latin1WordChars

\* s[a:b] with 0-based Python slice bounds, 0 <= a
Slice(s, a, b) == SubSeq(s, a + 1, IF b < Len(s) THEN b ELSE Len(s))

\* p stands at 1-based position i of s
HasAt(s, i, p) == /\ i + Len(p) - 1 <= Len(s)
                  /\ \A k \in 1..Len(p) : s[i + k - 1] = p[k]

\* all of s[i..j] satisfy \d, and the range lies inside s
DigitsAt(s, i, j) == /\ i >= 1
                     /\ j <= Len(s)
                     /\ \A k \in i..j : IsDigit(s[k])

RECURSIVE StrToNat(_)
StrToNat(s) == IF Len(s) = 0 THEN 0
               ELSE 10 * StrToNat(SubSeq(s, 1, Len(s) - 1)) + DigitVal(s[Len(s)])

RECURSIVE NatToStr(_)
\* str(n) for n >= 0
NatToStr(n) == IF n < 10 THEN <<DigitChars[n + 1]>>
               ELSE NatToStr(n \div 10) \o <<DigitChars[(n % 10) + 1]>>

\* "%02d" % n
Pad2(n) == IF n < 10 THEN <<"0">> \o NatToStr(n) ELSE NatToStr(n)

\* int(s): digits only in this model's inputs; anything else raises ValueError
IntOf(s) == IF Len(s) > 0 /\ DigitsAt(s, 1, Len(s)) THEN PyInt(StrToNat(s)) ELSE Raise(ValueError)

\* code point of the characters that occur in date strings
Ord(c) == IF c = "-" THEN 45 ELSE 48 + DigitVal(c)

RECURSIVE StrLE(_, _)
\* Python's a <= b on str: lexicographic by code point
StrLE(a, b) == IF Len(a) = 0 THEN TRUE
               ELSE IF Len(b) = 0 THEN FALSE
               ELSE IF Ord(Head(a)) < Ord(Head(b)) THEN TRUE
               ELSE IF Ord(Head(a)) > Ord(Head(b)) THEN FALSE
               ELSE StrLE(Tail(a), Tail(b))

\* min() and max() of a non-empty column of strings
StrMin(S) == CHOOSE a \in S : \A b \in S : StrLE(a, b)

StrMax(S) == CHOOSE a \in S : \A b \in S : StrLE(b, a)

(***************************************************************************)
(* extract_date: re.search, re.sub, datetime.strptime, datetime.strftime   *)
(***************************************************************************)
OrdinalSuffixes == {<<"s", "t">>, <<"n", "d">>, <<"r", "d">>, <<"t", "h">>}

HasSuffixAt(s, i) == \E x \in OrdinalSuffixes : HasAt(s, i, x)

RECURSIVE WordEnd(_, _)
\* last position of the maximal run of \w characters that starts at i (i - 1 if none)
WordEnd(s, i) == IF i <= Len(s) /\ IsWord(s[i]) THEN WordEnd(s, i + 1) ELSE i - 1

\* \s\w+\s\d{4} with the word ending at e, from position q: last matched position, or 0
RestEndAt(s, q, e) ==
    IF /\ e >= q + 1
       /\ e + 1 <= Len(s)
       /\ IsSpace(s[e + 1])
       /\ DigitsAt(s, e + 2, e + 5)
    THEN e + 5
    ELSE 0

\* \s\w+\s\d{4} matched from position q (\w+ takes the whole run of word characters:
\* a shorter word is not followed by \s): last matched position, or 0
RestEnd(s, q) ==
    IF q <= Len(s) /\ IsSpace(s[q]) THEN RestEndAt(s, q, WordEnd(s, q + 1)) ELSE 0

\* the first alternative that matched (an end position other than 0), else the second
FirstMatch(a, b) == IF a # 0 THEN a ELSE b

\* \d{n}(?:st|nd|rd|th)? followed by the rest, from position i: last position or 0
DayEnd(s, i, n) ==
    IF DigitsAt(s, i, i + n - 1)
    THEN FirstMatch(IF HasSuffixAt(s, i + n) THEN RestEnd(s, i + n + 2) ELSE 0,
                    RestEnd(s, i + n))
    ELSE 0

\* date_pattern matched at position i (greedy \d{1,2}: two digits first): last position or 0
MatchEnd(s, i) == FirstMatch(DayEnd(s, i, 2), DayEnd(s, i, 1))

RECURSIVE SearchFrom(_, _)
\* the leftmost match of date_pattern at or after position i, as <<first, last>>, or <<>>
SearchFrom(title, i) ==
    IF i > Len(title) THEN <<>>
    ELSE IF MatchEnd(title, i) # 0 THEN <<i, MatchEnd(title, i)>>
    ELSE SearchFrom(title, i + 1)

\* re.search(date_pattern, title): the leftmost match as <<first, last>>, or <<>>
SearchDate(title) == SearchFrom(title, 1)

RECURSIVE DigitRunEnd(_, _)
DigitRunEnd(s, i) == IF i <= Len(s) /\ IsDigit(s[i]) THEN DigitRunEnd(s, i + 1) ELSE i - 1

RECURSIVE StripFrom(_, _)
\* re.sub(r'(\d+)(st|nd|rd|th)', r'\1', s) scanning from position i: a character that
\* is no digit is copied; a run of digits is copied and an ordinal suffix after it dropped
StripFrom(s, i) ==
    IF i > Len(s) THEN <<>>
    ELSE IF ~IsDigit(s[i]) THEN <<s[i]>> \o StripFrom(s, i + 1)
    ELSE IF i < Len(s) /\ IsDigit(s[i + 1]) THEN <<s[i]>> \o StripFrom(s, i + 1)
    ELSE IF HasSuffixAt(s, i + 1) THEN <<s[i]>> \o StripFrom(s, i + 3)
    ELSE <<s[i]>> \o StripFrom(s, i + 1)

\* an extract_date that leaves the ordinal suffix in the string given to strptime
StripOrdinals_none(s) == s

StripOrdinals(s) == StripFrom(s, 1)

MonthNames == << <<"j", "a", "n", "u", "a", "r", "y">>,
                 <<"f", "e", "b", "r", "u", "a", "r", "y">>,
                 <<"m", "a", "r", "c", "h">>,
                 <<"a", "p", "r", "i", "l">>,
                 <<"m", "a", "y">>,
                 <<"j", "u", "n", "e">>,
                 <<"j", "u", "l", "y">>,
                 <<"a", "u", "g", "u", "s", "t">>,
                 <<"s", "e", "p", "t", "e", "m", "b", "e", "r">>,
                 <<"o", "c", "t", "o", "b", "e", "r">>,
                 <<"n", "o", "v", "e", "m", "b", "e", "r">>,
                 <<"d", "e", "c", "e", "m", "b", "e", "r">> >>

IsLeap(y) == y % 4 = 0 /\ (y % 100 # 0 \/ y % 400 = 0)

DaysInMonth(y, m) == IF m = 2 THEN (IF IsLeap(y) THEN 29 ELSE 28)
                     ELSE IF m \in {4, 6, 9, 11} THEN 30
                     ELSE 31

RECURSIVE SpaceRunEnd(_, _)
SpaceRunEnd(s, i) == IF i <= Len(s) /\ IsSpace(s[i]) THEN SpaceRunEnd(s, i + 1) ELSE i - 1

\* the name of month m stands at position i of s, in any case
MonthAt(s, i, m) ==
    /\ i + Len(MonthNames[m]) - 1 <= Len(s)
    /\ \A k \in 1..Len(MonthNames[m]) : ToLower(s[i + k - 1]) = MonthNames[m][k]

\* \s+%Y to the end of the string, the spaces ending at c: the year, or -1
YearAt(s, b, c) ==
    IF c >= b + 1 /\ DigitsAt(s, c + 1, c + 4) /\ c + 4 = Len(s)
    THEN StrToNat(SubSeq(s, c + 1, c + 4))
    ELSE -1

\* %B\s+%Y to the end of the string, from position i: <<month, year>> or <<>>
MonthYearAt(s, i) ==
    IF \E m \in 1..12 : MonthAt(s, i, m) /\ YearAt(s, i + Len(MonthNames[m]) - 1,
                                                   SpaceRunEnd(s, i + Len(MonthNames[m]))) >= 0
    THEN LET m == CHOOSE k \in 1..12 : MonthAt(s, i, k)
         IN  <<m, YearAt(s, i + Len(MonthNames[m]) - 1, SpaceRunEnd(s, i + Len(MonthNames[m])))>>
    ELSE <<>>

\* \s+%B\s+%Y to the end of the string, after a day of length n: <<month, year>> or <<>>
MonthYear(s, n) ==
    IF SpaceRunEnd(s, n + 1) >= n + 1 THEN MonthYearAt(s, SpaceRunEnd(s, n + 1) + 1) ELSE <<>>

\* the %d directive: the day matches one of 3[0-1] | [1-2]\d | 0[1-9] with two characters
DayTwo(s) == /\ Len(s) >= 2
             /\ \/ s[1] = "3" /\ s[2] \in {"0", "1"}
                \/ s[1] \in {"1", "2"} /\ IsDigit(s[2])
                \/ s[1] = "0" /\ IsDigit(s[2]) /\ s[2] # "0"

\* the %d directive: the day matches [1-9] with one character
DayOne(s) == Len(s) >= 1 /\ IsDigit(s[1]) /\ s[1] # "0"

\* the %d directive: the day matches ' [1-9]', a blank and a digit
DayBlank(s) == Len(s) >= 2 /\ s[1] = " " /\ IsDigit(s[2]) /\ s[2] # "0"

\* the length of the day with which "%d %B %Y" matches the whole of s (the alternatives
\* in the order of the regex of %d: two characters, one character, blank and digit),
\* or 0 when the format does not match
DayLen(s) ==
    IF DayTwo(s) /\ MonthYear(s, 2) # <<>> THEN 2
    ELSE IF DayOne(s) /\ MonthYear(s, 1) # <<>> THEN 1
    ELSE IF DayBlank(s) /\ MonthYear(s, 2) # <<>> THEN 2
    ELSE 0

\* int() of the day of n characters at the head of s (int drops the blank)
DayValue(s, n) == IF s[1] = " " THEN StrToNat(SubSeq(s, 2, n)) ELSE StrToNat(SubSeq(s, 1, n))

\* the date of day d, <<month, year>> my, or ValueError when there is no such day
DateOf(d, my) ==
    IF my[2] = 0 \/ d > DaysInMonth(my[2], my[1]) THEN Raise(ValueError)
    ELSE [year |-> my[2], month |-> my[1], day |-> d]

\* the date of the string s that matches the format with a day of n characters
StrptimeDay(s, n) ==
    IF n = 0 THEN Raise(ValueError)
    ELSE DateOf(DayValue(s, n), MonthYear(s, n))

\* datetime.datetime.strptime(s, "%d %B %Y"): a date, or ValueError
Strptime(s) == StrptimeDay(s, DayLen(s))

\* date.strftime("%Y-%m-%d"); the C library does not pad %Y, so year 500 gives "500-.."
Strftime(date) == NatToStr(date.year) \o <<"-">> \o Pad2(date.month) \o <<"-">> \o Pad2(date.day)

\* the date of the match of the pattern in title, None when there is no match
DateOfMatch(title, match) ==
    IF match # <<>>
    THEN Strptime(StripOrdinals(SubSeq(title, match[1], match[2])))
    ELSE None

\* extract_date(title): a date, None when the pattern does not occur, or ValueError
\* raised by strptime
extract_date(title) == DateOfMatch(title, SearchDate(title))

RECURSIVE YearFrom(_, _)
\* the first run of four digits at or after position i as an integer, or None
YearFrom(title, i) ==
    IF i > Len(title) THEN None
    ELSE IF DigitsAt(title, i, i + 3) THEN PyInt(StrToNat(SubSeq(title, i, i + 3)))
    ELSE YearFrom(title, i + 1)

\* extract_year(title): the first run of four digits as an integer, or None
extract_year(title) == YearFrom(title, 1)

(***************************************************************************)
(* The upstream API: raw records and responses                             *)
(***************************************************************************)
size_param == 10

HTTP_OK == 200

HTTP_ERROR == 500

\* the search terms: one of letters only, and one with characters that line 224 drops
SearchTerms == {"theft", "the/ft?"}

\* the characters of a search term, as `for c in search_term` (line 224) yields them
Chars(term) ==
    IF term = "theft" THEN <<"t", "h", "e", "f", "t">>
    ELSE IF term = "the/ft?" THEN <<"t", "h", "e", "/", "f", "t", "?">>
    ELSE <<>>

TitleMay1800 == <<"1", "s", "t", " ", "M", "a", "y", " ", "1", "8", "0", "0">>

TitleJune181 == <<"2", " ", "J", "u", "n", "e", " ", "0", "1", "8", "1">>

TitleMay1810 == <<"3", " ", "M", "a", "y", " ", "1", "8", "1", "0">>

TitleNoDate == <<"T", "r", "i", "a", "l">>

TitleBadMonth == <<"1", "2", " ", "F", "o", "o", " ", "1", "8", "0", "0">>

Source(k, title) == [idkey |-> k, title |-> title, text |-> "snippet", images |-> <<"img">>]

Raw(k, source) == [_id |-> k, _index |-> "oldbailey", _type |-> "record", _source |-> source]

\* the raw records the search endpoint returns in this model, in the order of its
\* index: one without a date in its title, three dated records (one of them with a
\* year below 1000), one whose title matches the pattern with a word that is no
\* month, one without 'images'
Catalogue == << Raw("r1", Source("k1", TitleNoDate)),
                Raw("r2", Source("k2", TitleMay1800)),
                Raw("r3", Source("k3", TitleJune181)),
                Raw("r4", Source("k4", TitleMay1810)),
                Raw("r5", Source("k5", TitleBadMonth)),
                Raw("r6", [idkey |-> "k6", title |-> TitleMay1800, text |-> "snippet"]) >>

\* the hit lists of one response: up to MaxRecs consecutive records of the index
PageContents ==
    {SubSeq(Catalogue, w[1], w[1] + w[2] - 1) :
        w \in {v \in (1..Len(Catalogue)) \X (0..MaxRecs) : v[1] + v[2] - 1 <= Len(Catalogue)}}

\* the values of hits.total: 0 and the boundary values of each page count
TotalHitsValues == {0} \cup UNION {{(k - 1) * size_param + 1, k * size_param} : k \in 1..MaxPages}

\* the values of hits.total in a session, one for each page count
SessionTotalHits == {0} \cup {(k - 1) * size_param + 1 : k \in 1..MaxPages}

\* the values of the max_results argument
MaxResultsValues == {None} \cup {PyInt(n) : n \in {0, 1, size_param, size_param + 1}}

(***************************************************************************)
(* DataFrames                                                              *)
(***************************************************************************)
RowColumns == <<"id", "index", "type", "idkey", "text", "title", "images", "date">>

DetailColumns == <<"id", "index", "type", "idkey", "title", "images", "text">>

\* pd.DataFrame()
EmptyDataFrame == [columns |-> <<>>, rows |-> <<>>]

\* pd.DataFrame(rows) for a list of dicts that all have the keys `columns`
DataFrame(rows, columns) == IF rows = <<>> THEN EmptyDataFrame
                            ELSE [columns |-> columns, rows |-> rows]

\* df.empty
IsEmpty(df) == Len(df.rows) = 0 \/ Len(df.columns) = 0

\* ceil(a / b) for a >= 0, b > 0
Ceil(a, b) == (a + b - 1) \div b

Min(a, b) == IF a < b THEN a ELSE b

(***************************************************************************)
(* fetch_data: page count and the mapping of one page                      *)
(***************************************************************************)
Pages(maxResults, totalHits) ==
    IF maxResults # None /\ maxResults.int # 0
    THEN Ceil(Min(maxResults.int, totalHits), size_param)
    ELSE Ceil(totalHits, size_param)

\* the titles of the raw records
Titles == {Catalogue[k]._source.title : k \in {j \in 1..Len(Catalogue) : "title" \in DOMAIN Catalogue[j]._source}}

\* extract_date and extract_year tabulated over the titles of the model (computed once)
DateOfTitle == [t \in Titles |-> extract_date(t)]

YearOfTitle == [t \in Titles |-> extract_year(t)]

\* the sentinel the sibling scripts app_old.py and app_all_in_one.py put in the date
Unknown == <<"U", "n", "k", "n", "o", "w", "n">>

\* a loop body that puts the new row before the rows collected so far
MapRecord_prepend(record, acc) ==
    LET source == record._source
    IN  IF "title" \notin DOMAIN source THEN Raise(KeyError)
        ELSE LET date == DateOfTitle[source.title]
             IN  IF date = Raise(ValueError) THEN date
                 ELSE IF date = None THEN [rows |-> acc]
                 ELSE IF {"idkey", "text", "images"} \subseteq DOMAIN source
                      THEN [rows |-> << [id |-> record._id,
                                         index |-> record._index,
                                         type |-> record._type,
                                         idkey |-> source.idkey,
                                         text |-> source.text,
                                         title |-> source.title,
                                         images |-> source.images,
                                         date |-> Strftime(date)] >> \o acc]
                      ELSE Raise(KeyError)

\* the body of the loop over one record: [rows |-> the rows after it], or the
\* exception it raises
MapRecord(record, acc) ==
    LET source == record._source
    IN  IF "title" \notin DOMAIN source THEN Raise(KeyError)
        ELSE LET date == DateOfTitle[source.title]
             IN  IF date = Raise(ValueError) THEN date
                 ELSE IF date = None THEN [rows |-> acc]
                 ELSE IF {"idkey", "text", "images"} \subseteq DOMAIN source
                      THEN [rows |-> Append(acc, [id |-> record._id,
                                        index |-> record._index,
                                        type |-> record._type,
                                        idkey |-> source.idkey,
                                        text |-> source.text,
                                        title |-> source.title,
                                        images |-> source.images,
                                        date |-> Strftime(date)])]
                      ELSE Raise(KeyError)

RECURSIVE MapRecords(_, _)
\* for record in records: [rows |-> the rows after the page], or the first exception
\* raised together with the rows appended before it
MapRecords(records, acc) ==
    IF records = <<>> THEN [rows |-> acc]
    ELSE LET next == MapRecord(Head(records), acc)
         IN  IF "raise" \in DOMAIN next THEN [raise |-> next.raise, rows |-> acc]
             ELSE MapRecords(Tail(records), next.rows)

(***************************************************************************)
(* State                                                                   *)
(***************************************************************************)
VARIABLES
    pc,             \* control position: "idle", "fetch", "loop", "returned", "display",
                    \* "enrich", "end"; "extract" when extract_date is called on its own
    search_term,    \* the text input of main / the search_term argument of fetch_data
    max_results,    \* argument of fetch_data
    total_hits,     \* fetch_data: hits.total of the first response
    pages,          \* fetch_data: number of pages to fetch
    page,           \* fetch_data: loop index, the page of the last iteration begun
    rows,           \* fetch_data: rows collected so far
    ret,            \* value returned (or exception raised) by fetch_data, None before
    requests,       \* search requests issued in this script run, in order
    progress,       \* values given to the progress bar, as <<numerator, denominator>>
    ui,             \* the kinds of elements the script run has rendered
    session_state,  \* st.session_state: a dict with keys search_results, search_term
    button,         \* main: value of st.button in this run
    years,          \* main: value of the slider, <<lo, hi>>
    filtered_df,    \* main: the rows selected by the year range
    lookups,        \* fetch_all_details: the detail lookups made so far, in order: the idkey
                    \* asked for, the response, and what fetch_detailed_data returned
    details,        \* fetch_all_details: detail records collected so far
    df_detailed,    \* main: the DataFrame returned by fetch_all_details
    excel_data,     \* main: the table written by to_excel
    file_name,      \* main: name given to the download
    date_input,     \* extract_date called on its own: the parts the titles are made of
    date_calls      \* extract_date called on its own: the calls made, title and result

fetchVars == <<search_term, max_results, total_hits, pages, page, rows, ret, requests, progress>>

mainVars == <<session_state, button, years, filtered_df, lookups, details, df_detailed,
              excel_data, file_name>>

vars == <<pc, search_term, max_results, total_hits, pages, page, rows, ret, requests,
          progress, ui, session_state, button, years, filtered_df, lookups, details,
          df_detailed, excel_data, file_name, date_input, date_calls>>

dateVars == <<date_input, date_calls>>

\* extract_date is not called on its own
DateLocalsInit ==
    /\ date_input = None
    /\ date_calls = <<>>

\* the locals of main before the script reaches them
MainLocalsInit ==
    /\ button = FALSE
    /\ years = <<>>
    /\ filtered_df = None
    /\ lookups = <<>>
    /\ details = <<>>
    /\ df_detailed = None
    /\ excel_data = None
    /\ file_name = None

\* the locals of fetch_data before the call reaches them
FetchLocalsInit ==
    /\ total_hits = 0
    /\ pages = 0
    /\ page = 0
    /\ rows = <<>>
    /\ ret = None
    /\ requests = <<>>
    /\ progress = <<>>

(***************************************************************************)
(* fetch_data, one action per request                                      *)
(***************************************************************************)
\* one exchange with the search endpoint: the query and the response to it
Request(term, from, status, hits) ==
    [text |-> term, from |-> from, size |-> size_param, status |-> status, hits |-> hits]

\* line 157: the value returned when the first response is no success
FirstFailureResult == EmptyDataFrame

\* a fetch_data that treats "no hits" as an error of the call
NoHitsResult_raise == Raise("HTTPError")

\* line 110: the value returned when the first response reports no hits
NoHitsResult == EmptyDataFrame

\* a fetch_data that returns the rows of the pages before the failing one
PageFailureResult_partial(collected) == DataFrame(collected, RowColumns)

\* line 129: the value returned when a later page is no success, whatever was collected
PageFailureResult(collected) == EmptyDataFrame

\* a loop that moves the progress bar to page / pages, the pages done before this one
PageDone_late(mapped, acc, prog, p) ==
    /\ page' = p
    /\ rows' = mapped.rows
    /\ IF "raise" \in DOMAIN mapped
       THEN /\ ret' = Raise(mapped.raise)
            /\ pc' = "returned"
            /\ progress' = prog
       ELSE /\ progress' = Append(prog, <<p, pages'>>)
            /\ pc' = "loop"
            /\ UNCHANGED ret

\* lines 132-148: the records of page p (the loop index) are mapped, each row appended
\* as it is made, and the progress bar is moved; mapped is MapRecords of the page's hit
\* list on the rows acc collected before page p
PageDone(mapped, acc, prog, p) ==
    /\ page' = p
    /\ rows' = mapped.rows
    /\ IF "raise" \in DOMAIN mapped
       THEN /\ ret' = Raise(mapped.raise)
            /\ pc' = "returned"
            /\ progress' = prog
       ELSE /\ progress' = Append(prog, <<p + 1, pages'>>)
            /\ pc' = "loop"
            /\ UNCHANGED ret

\* lines 98-120 and the iteration of the loop for page 0, which maps the records of
\* the response already fetched
FetchFirst(status, total, hits) ==
    /\ pc = "fetch"
    /\ UNCHANGED dateVars
    /\ requests' = Append(requests, Request(search_term, 0, status, hits))
    /\ IF status = HTTP_OK
       THEN /\ total_hits' = total
            /\ IF total = 0
               THEN /\ ui' = ui \cup {"info: No records found"}
                    /\ ret' = NoHitsResult
                    /\ pc' = "returned"
                    /\ UNCHANGED <<pages, page, rows, progress>>
               ELSE /\ pages' = Pages(max_results, total)
                    /\ IF pages' > 0
                       THEN PageDone(MapRecords(hits, <<>>), <<>>, << <<0, 1>> >>, 0)
                       ELSE /\ rows' = <<>>
                            /\ progress' = << <<0, 1>> >>
                            /\ page' = 0
                            /\ pc' = "loop"
                            /\ UNCHANGED ret
                    /\ UNCHANGED ui
       ELSE /\ ui' = ui \cup {"error: Failed to retrieve data"}
            /\ ret' = FirstFailureResult
            /\ pc' = "returned"
            /\ UNCHANGED <<total_hits, pages, page, rows, progress>>
    /\ UNCHANGED <<search_term, max_results>>
    /\ UNCHANGED mainVars

\* lines 121-148: one iteration of the loop for a page after page 0
LoopPage(status, hits) ==
    /\ pc = "loop"
    /\ UNCHANGED dateVars
    /\ page + 1 < pages
    /\ requests' = Append(requests, Request(search_term, (page + 1) * size_param, status, hits))
    /\ UNCHANGED pages
    /\ IF status # HTTP_OK
       THEN /\ ui' = ui \cup {"error: Failed to fetch data on subsequent pages"}
            /\ ret' = PageFailureResult(rows)
            /\ pc' = "returned"
            /\ page' = page + 1
            /\ UNCHANGED <<rows, progress>>
       ELSE /\ PageDone(MapRecords(hits, rows), rows, progress, page + 1)
            /\ UNCHANGED ui
    /\ UNCHANGED <<search_term, max_results, total_hits>>
    /\ UNCHANGED mainVars

\* lines 150-154: the loop is over, the rows become the DataFrame
FetchReturn ==
    /\ pc = "loop"
    /\ UNCHANGED dateVars
    /\ page + 1 >= pages
    /\ ret' = DataFrame(rows, RowColumns)
    /\ pc' = "returned"
    /\ UNCHANGED <<search_term, max_results, total_hits, pages, page, rows, requests,
                   progress, ui>>
    /\ UNCHANGED mainVars

\* the responses of the search endpoint: an error response carries no hits, and a
\* page has no more hits than the total leaves for it
SearchResponse(status, total, from, hits) ==
    /\ status # HTTP_OK => hits = <<>>
    /\ from + Len(hits) <= total

FetchStep(totals) ==
    \/ \E status \in {HTTP_OK, HTTP_ERROR}, total \in totals, hits \in PageContents :
          /\ status # HTTP_OK => total = 0
          /\ SearchResponse(status, total, 0, hits)
          /\ FetchFirst(status, total, hits)
    \/ \E status \in {HTTP_OK, HTTP_ERROR}, hits \in PageContents :
          /\ SearchResponse(status, total_hits, (page + 1) * size_param, hits)
          /\ LoopPage(status, hits)
    \/ FetchReturn

(***************************************************************************)
(* fetch_data called on its own with any search term and max_results       *)
(***************************************************************************)
FetchInit ==
    /\ pc = "fetch"
    /\ search_term \in SearchTerms
    /\ max_results \in MaxResultsValues
    /\ ui = {}
    /\ session_state = <<>>
    /\ FetchLocalsInit
    /\ MainLocalsInit
    /\ DateLocalsInit

FetchNext == FetchStep(TotalHitsValues)

FetchSpec == FetchInit /\ [][FetchNext]_vars

(***************************************************************************)
(* fetch_detailed_data and to_excel                                        *)
(***************************************************************************)
\* the responses of the detail endpoint for one idkey: an error status, no hit,
\* the record, or a record without its 'text'
DetailHit(idkey, title) ==
    Raw(idkey, [idkey |-> idkey, title |-> title, images |-> <<"img">>, text |-> "full text"])

DetailHitNoText(idkey, title) == Raw(idkey, [idkey |-> idkey, title |-> title, images |-> <<"img">>])

DetailResponses(idkey, title) ==
    { [status |-> HTTP_ERROR, hits |-> <<>>],
      [status |-> HTTP_OK, hits |-> <<>>],
      [status |-> HTTP_OK, hits |-> <<DetailHit(idkey, title)>>],
      [status |-> HTTP_OK, hits |-> <<DetailHitNoText(idkey, title)>>] }

\* a fetch_detailed_data that answers a non-success status with a placeholder dict
fetch_detailed_data_http(idkey, response) ==
    IF response.status = HTTP_OK
    THEN IF Len(response.hits) = 0
         THEN <<None, "error: An error occurred while fetching details">>
         ELSE LET record == response.hits[1]
                  source == record._source
              IN  IF {"idkey", "title", "images", "text"} \subseteq DOMAIN source
                  THEN << [id |-> record._id,
                           index |-> record._index,
                           type |-> record._type,
                           idkey |-> source.idkey,
                           title |-> source.title,
                           images |-> source.images,
                           text |-> source.text], "" >>
                  ELSE <<None, "error: An error occurred while fetching details">>
    ELSE << [id |-> idkey, index |-> "", type |-> "", idkey |-> idkey,
             title |-> <<>>, images |-> <<>>, text |-> "Failed to retrieve full text"],
            "error: Failed to fetch details: HTTP" >>

\* a fetch_detailed_data that answers an empty hit list with a placeholder dict
fetch_detailed_data_nohit(idkey, response) ==
    IF response.status = HTTP_OK
    THEN IF Len(response.hits) = 0
         THEN << [id |-> idkey, index |-> "", type |-> "", idkey |-> idkey,
                 title |-> <<>>, images |-> <<>>, text |-> "Failed to retrieve full text"], "" >>
         ELSE LET record == response.hits[1]
                  source == record._source
              IN  IF {"idkey", "title", "images", "text"} \subseteq DOMAIN source
                  THEN << [id |-> record._id,
                           index |-> record._index,
                           type |-> record._type,
                           idkey |-> source.idkey,
                           title |-> source.title,
                           images |-> source.images,
                           text |-> source.text], "" >>
                  ELSE <<None, "error: An error occurred while fetching details">>
    ELSE <<None, "error: Failed to fetch details: HTTP">>

\* lines 160-180: the detail dict, or None; every exception is caught inside.
\* The second component is the message given to st.error, "" when there is none.
fetch_detailed_data(idkey, response) ==
    IF response.status = HTTP_OK
    THEN IF Len(response.hits) = 0
         THEN <<None, "error: An error occurred while fetching details">>
         ELSE LET record == response.hits[1]
                  source == record._source
              IN  IF {"idkey", "title", "images", "text"} \subseteq DOMAIN source
                  THEN << [id |-> record._id,
                           index |-> record._index,
                           type |-> record._type,
                           idkey |-> source.idkey,
                           title |-> source.title,
                           images |-> source.images,
                           text |-> source.text], "" >>
                  ELSE <<None, "error: An error occurred while fetching details">>
    ELSE <<None, "error: Failed to fetch details: HTTP">>

\* lines 49-54: one sheet with the column names as header row and one row of cells per row
to_excel(df) ==
    [sheet_name |-> "Sheet1",
     header |-> df.columns,
     cells |-> [i \in 1..Len(df.rows) |-> [j \in 1..Len(df.columns) |-> df.rows[i][df.columns[j]]]]]

(***************************************************************************)
(* main: the script is run again on every interaction                      *)
(***************************************************************************)
\* line 206: search_results['year'] = search_results['title'].apply(extract_year)
WithYear(df) ==
    [columns |-> IF \E j \in 1..Len(df.columns) : df.columns[j] = "year"
                 THEN df.columns ELSE Append(df.columns, "year"),
     rows |-> [i \in 1..Len(df.rows) |->
                 [id |-> df.rows[i].id,
                  index |-> df.rows[i].index,
                  type |-> df.rows[i].type,
                  idkey |-> df.rows[i].idkey,
                  text |-> df.rows[i].text,
                  title |-> df.rows[i].title,
                  images |-> df.rows[i].images,
                  date |-> df.rows[i].date,
                  year |-> YearOfTitle[df.rows[i].title]]]]

Dates(df) == {df.rows[i].date : i \in 1..Len(df.rows)}

\* lines 211-212: the first four characters of the smallest and of the largest date
year_min(df) == Slice(StrMin(Dates(df)), 0, 4)

year_max(df) == Slice(StrMax(Dates(df)), 0, 4)

\* the positions of slider the model lets the user choose
SliderValues(lo, hi) == {y \in {lo, lo + 1, hi} : lo <= y /\ y <= hi}

RECURSIVE SelectRows(_, _, _)
SelectRows(rs, left, right) ==
    IF rs = <<>> THEN <<>>
    ELSE (IF StrLE(left, Head(rs).date) /\ StrLE(Head(rs).date, right) THEN <<Head(rs)>> ELSE <<>>)
         \o SelectRows(Tail(rs), left, right)

\* line 215: df[df['date'].between(f"{lo}-01-01", f"{hi}-12-31")]
Between(df, lo, hi) ==
    [columns |-> df.columns,
     rows |-> SelectRows(df.rows,
                         NatToStr(lo) \o <<"-", "0", "1", "-", "0", "1">>,
                         NatToStr(hi) \o <<"-", "1", "2", "-", "3", "1">>)]

\* a main that looks only for the presence of cached results
NeedsFetch_anyTerm(term) == "search_results" \notin DOMAIN session_state

\* line 200: there is no cached result, or it is that of another term
NeedsFetch(term) ==
    "search_results" \notin DOMAIN session_state \/ session_state.search_term # term

\* lines 195-200: a run of the script starts with the text input and the button
Rerun(term, click) ==
    /\ pc = "idle"
    /\ UNCHANGED dateVars
    /\ click => ("button" \in ui /\ term = search_term)
    /\ search_term' = term
    /\ button' = click
    /\ ui' = {"title"}
    /\ max_results' = None
    /\ pc' = IF term = "" THEN "end"
             ELSE IF NeedsFetch(term) THEN "fetch"
             ELSE "display"
    /\ UNCHANGED <<total_hits, pages, page, rows, ret, requests, progress>>
    /\ UNCHANGED <<session_state, years, filtered_df, lookups, details, df_detailed,
                   excel_data, file_name>>

\* lines 201-202: fetch_data has returned or raised; its locals are gone
MainAssign ==
    /\ pc = "returned"
    /\ UNCHANGED dateVars
    /\ IF "raise" \in DOMAIN ret
       THEN /\ ui' = ui \cup {"exception"}
            /\ pc' = "end"
            /\ UNCHANGED session_state
       ELSE /\ session_state' = [search_results |-> ret, search_term |-> search_term]
            /\ pc' = "display"
            /\ UNCHANGED ui
    /\ total_hits' = 0
    /\ pages' = 0
    /\ page' = 0
    /\ rows' = <<>>
    /\ UNCHANGED <<search_term, max_results, ret, requests, progress>>
    /\ UNCHANGED <<button, years, filtered_df, lookups, details, df_detailed, excel_data,
                   file_name>>

\* lines 204-217: year column, histogram, slider, filter, button
Display(lo, hi) ==
    /\ pc = "display"
    /\ UNCHANGED dateVars
    /\ IF IsEmpty(session_state.search_results)
       THEN /\ pc' = "end"
            /\ UNCHANGED <<ui, session_state, years, filtered_df, progress>>
       ELSE LET search_results == WithYear(session_state.search_results)
                ymin == IntOf(year_min(search_results))
                ymax == IntOf(year_max(search_results))
            IN  /\ session_state' = [session_state EXCEPT !.search_results = search_results]
                /\ IF "raise" \in DOMAIN ymin \/ "raise" \in DOMAIN ymax
                   THEN /\ ui' = ui \cup {"histogram", "exception"}
                        /\ pc' = "end"
                        /\ UNCHANGED <<years, filtered_df, progress>>
                   ELSE /\ lo \in SliderValues(ymin.int, ymax.int)
                        /\ hi \in SliderValues(ymin.int, ymax.int)
                        /\ lo <= hi
                        /\ years' = <<lo, hi>>
                        /\ filtered_df' = Between(search_results, lo, hi)
                        /\ ui' = ui \cup {"histogram", "slider", "button"}
                        /\ IF button
                           THEN /\ pc' = "enrich"
                                /\ progress' = << <<0, 1>> >>
                           ELSE /\ pc' = "end"
                                /\ UNCHANGED progress
    /\ UNCHANGED <<search_term, max_results, total_hits, pages, page, rows, ret, requests>>
    /\ UNCHANGED <<button, lookups, details, df_detailed, excel_data, file_name>>

\* lines 185-189: one iteration of the loop of fetch_all_details
EnrichStep(response) ==
    /\ pc = "enrich"
    /\ UNCHANGED dateVars
    /\ Len(lookups) < Len(filtered_df.rows)
    /\ LET i == Len(lookups)
           record == filtered_df.rows[i + 1]
           detail == fetch_detailed_data(record.idkey, response)
       IN  /\ response \in DetailResponses(record.idkey, record.title)
           /\ lookups' = Append(lookups, [idkey |-> record.idkey, response |-> response,
                                           detail |-> detail[1]])
           /\ details' = IF detail[1] # None THEN Append(details, detail[1]) ELSE details
           /\ ui' = IF detail[2] # "" THEN ui \cup {detail[2]} ELSE ui
           /\ progress' = Append(progress, <<i + 1, Len(filtered_df.rows)>>)
    /\ UNCHANGED <<pc, search_term, max_results, total_hits, pages, page, rows, ret, requests>>
    /\ UNCHANGED <<session_state, button, years, filtered_df, df_detailed, excel_data, file_name>>

\* str.isalnum() on one character of code point up to 255
IsAlnum(c) == IsWord(c) /\ c # "_"

\* line 224: the characters kept in the file name
KeptInName(c) == IsAlnum(c) \/ c \in {" ", "-", "_"}

RECURSIVE RStrip(_)
\* str.rstrip(): the blanks at the end are dropped
RStrip(s) == IF Len(s) > 0 /\ IsSpace(s[Len(s)]) THEN RStrip(SubSeq(s, 1, Len(s) - 1)) ELSE s

\* line 224: "".join([c for c in search_term if c.isalnum() or c in [' ', '-', '_']]).rstrip()
safe_search_term(term) == RStrip(SelectSeq(Chars(term), KeptInName))

\* the readings of the clock (datetime.datetime.now(), line 222) in this model
ClockReadings == {[year |-> 2026, month |-> 10, day |-> 29, hour |-> 23, minute |-> 15, second |-> s] :
                    s \in {24, 25}}

\* line 222: now.strftime("%Y-%m-%d_%H-%M-%S")
current_datetime(now) ==
    NatToStr(now.year) \o <<"-">> \o Pad2(now.month) \o <<"-">> \o Pad2(now.day) \o <<"_">>
    \o Pad2(now.hour) \o <<"-">> \o Pad2(now.minute) \o <<"-">> \o Pad2(now.second)

\* line 225: f'old-bailey-{safe_search_term}-{current_datetime}-{year_min}-{year_max}.xlsx'
FileName(term, now, ymin, ymax) ==
    <<"o", "l", "d", "-", "b", "a", "i", "l", "e", "y", "-">> \o safe_search_term(term)
    \o <<"-">> \o current_datetime(now) \o <<"-">> \o ymin \o <<"-">> \o ymax
    \o <<".", "x", "l", "s", "x">>

\* lines 190-191 and 218-231: the details become a DataFrame, the table and the download;
\* now is the reading of the clock at line 222
Export(now) ==
    /\ pc = "enrich"
    /\ UNCHANGED dateVars
    /\ Len(lookups) >= Len(filtered_df.rows)
    /\ df_detailed' = DataFrame(details, DetailColumns)
    /\ IF ~IsEmpty(df_detailed')
       THEN /\ excel_data' = to_excel(df_detailed')
            /\ file_name' = FileName(search_term, now,
                                      year_min(session_state.search_results),
                                      year_max(session_state.search_results))
            /\ ui' = ui \cup {"table", "download"}
       ELSE UNCHANGED <<excel_data, file_name, ui>>
    /\ pc' = "end"
    /\ UNCHANGED fetchVars
    /\ UNCHANGED <<session_state, button, years, filtered_df, lookups, details>>

\* main returns: its locals and those of the functions it called are gone; the
\* rendered page, the text input and st.session_state stay
RunEnd ==
    /\ pc = "end"
    /\ UNCHANGED dateVars
    /\ pc' = "idle"
    /\ total_hits' = 0
    /\ pages' = 0
    /\ page' = 0
    /\ rows' = <<>>
    /\ ret' = None
    /\ requests' = <<>>
    /\ progress' = <<>>
    /\ button' = FALSE
    /\ years' = <<>>
    /\ filtered_df' = None
    /\ lookups' = <<>>
    /\ details' = <<>>
    /\ df_detailed' = None
    /\ excel_data' = None
    /\ file_name' = None
    /\ UNCHANGED <<search_term, max_results, ui, session_state>>

Init ==
    /\ pc = "idle"
    /\ search_term = ""
    /\ max_results = None
    /\ ui = {}
    /\ session_state = <<>>
    /\ FetchLocalsInit
    /\ MainLocalsInit
    /\ DateLocalsInit

AllResponses == UNION {DetailResponses(Catalogue[k]._source.idkey, Catalogue[k]._source.title) :
                         k \in 1..Len(Catalogue)}

\* the slider positions offered in the current state (0 when no slider is reached)
SliderChoices ==
    IF pc = "display" /\ ~IsEmpty(session_state.search_results)
    THEN LET ymin == IntOf(year_min(session_state.search_results))
             ymax == IntOf(year_max(session_state.search_results))
         IN  IF "raise" \in DOMAIN ymin \/ "raise" \in DOMAIN ymax THEN {0}
             ELSE SliderValues(ymin.int, ymax.int)
    ELSE {0}

Next ==
    \/ \E term \in SearchTerms \cup {""}, click \in BOOLEAN : Rerun(term, click)
    \/ FetchStep(SessionTotalHits)
    \/ MainAssign
    \/ \E lo \in SliderChoices, hi \in SliderChoices : Display(lo, hi)
    \/ \E response \in AllResponses : EnrichStep(response)
    \/ \E now \in ClockReadings : Export(now)
    \/ RunEnd

Spec == Init /\ [][Next]_vars

(***************************************************************************)
(* Properties of fetch_data (specification FetchSpec)                      *)
(***************************************************************************)
AllOK == \A k \in 1..Len(requests) : requests[k].status = HTTP_OK

\* fetch_data has returned a DataFrame (it has not raised)
Returned == pc = "returned" /\ "rows" \in DOMAIN ret

\* C1: all-or-nothing on transport failure. When the first request or the request
\* of a later page gets a non-success status, fetch_data returns a DataFrame with no
\* rows at all, the rows of the pages before are discarded, and the failing
\* request is the last one issued.
C1_FailureReturnsNothing ==
    \A k \in 1..Len(requests) :
        requests[k].status # HTTP_OK =>
            /\ k = Len(requests)
            /\ pc = "returned"
            /\ ret = EmptyDataFrame

\* a later page failed after rows had been collected, and nothing is returned
C1_Witness ==
    /\ pc = "returned"
    /\ Len(requests) = 2
    /\ requests[1].status = HTTP_OK
    /\ requests[2].status # HTTP_OK
    /\ rows # <<>>
    /\ ret = EmptyDataFrame

\* the page count of the claim C2: ceil(min(max_results, total_hits) / page_size)
\* when max_results is set, ceil(total_hits / page_size) otherwise
ClaimedPages ==
    IF max_results = None THEN Ceil(total_hits, size_param)
    ELSE Ceil(Min(max_results.int, total_hits), size_param)

\* C2: when total_hits > 0 and no request fails, fetch_data issues exactly
\* ClaimedPages requests, at the offsets 0, page_size, 2 * page_size, ...: the
\* response at offset 0 is fetched once and every page of the plan is fetched.
\* (max_results = 0 is left to the claim about it.)
C2_OneRequestPerPage ==
    (/\ pc = "returned"
     /\ AllOK
     /\ total_hits > 0
     /\ (max_results # None => max_results.int > 0))
    => /\ Len(requests) = ClaimedPages
       /\ \A k \in 1..Len(requests) : requests[k].from = (k - 1) * size_param

\* C3: when max_results is set (and positive), the DataFrame fetch_data returns
\* has at most max_results rows.
C3_AtMostMaxResults ==
    (Returned /\ max_results # None /\ max_results.int > 0)
    => Len(ret.rows) <= max_results.int

\* C4: when the first response is a success reporting total_hits = 0, fetch_data
\* returns the empty DataFrame as a normal outcome (an information message, no
\* error message, nothing raised) after exactly one request.
C4_NoHitsIsEmpty ==
    (pc = "returned" /\ requests[1].status = HTTP_OK /\ total_hits = 0)
    => /\ ret = EmptyDataFrame
       /\ Len(requests) = 1
       /\ ui = {"info: No records found"}

\* the first response was a success with no hits and fetch_data has returned
C4_Witness ==
    /\ pc = "returned"
    /\ Len(requests) = 1
    /\ requests[1].status = HTTP_OK
    /\ total_hits = 0
    /\ ret = EmptyDataFrame

RECURSIVE AllHits(_)
\* the raw records of the responses, in the order they were received
AllHits(reqs) == IF reqs = <<>> THEN <<>> ELSE Head(reqs).hits \o AllHits(Tail(reqs))

Undated(record) ==
    /\ "title" \in DOMAIN record._source
    /\ DateOfTitle[record._source.title] = None

\* C10: lenient dates. Every raw record of a fetched page whose title has no
\* parseable date is in the returned DataFrame, with the sentinel as its date: no
\* record is dropped because its date could not be extracted.
C10_UndatedKeptWithSentinel ==
    (Returned /\ AllOK /\ total_hits > 0)
    => \A j \in 1..Len(AllHits(requests)) :
          Undated(AllHits(requests)[j]) =>
              \E i \in 1..Len(ret.rows) :
                  /\ ret.rows[i].id = AllHits(requests)[j]._id
                  /\ ret.rows[i].date = Unknown

(***************************************************************************)
(* Properties of the session (specification Spec)                          *)
(***************************************************************************)
Cached == "search_results" \in DOMAIN session_state

\* C5: a fetch that fails on transport leaves nothing cached for its term (so that
\* the next search with the same term fetches again).
C5_FailureNotCached ==
    (pc = "display" /\ ~AllOK)
    => ~(Cached /\ session_state.search_term = search_term)

\* the columns fetch_data gave the rows of a DataFrame
FetchedRows(df) ==
    [i \in 1..Len(df.rows) |-> [j \in 1..Len(RowColumns) |-> df.rows[i][RowColumns[j]]]]

\* C6: the cache is keyed by the search term. What fetch_data returns for T is
\* cached with T; a run with the cached term goes to the display without a request
\* and with the cached results; a run with another term starts a fetch; requests
\* are issued by fetch_data only, for the term of the run; and the cached rows
\* change only when a fetch returns, so they are those of the fetch for the cached
\* term.
C6_CacheKeyedByTerm ==
    [][/\ (pc = "returned" /\ "rows" \in DOMAIN ret /\ AllOK)
            => /\ pc' = "display"
               /\ session_state' = [search_results |-> ret, search_term |-> search_term]
       /\ (pc = "idle" /\ search_term' # "" /\ Cached /\ session_state.search_term = search_term')
            => /\ pc' = "display"
               /\ requests' = <<>>
               /\ session_state' = session_state
       /\ (pc = "idle" /\ search_term' # ""
             /\ ~(Cached /\ session_state.search_term = search_term'))
            => pc' = "fetch"
       /\ search_term' # search_term => pc = "idle"
       /\ requests' # requests
            => \/ /\ pc \in {"fetch", "loop"}
                  /\ requests' = Append(requests, requests'[Len(requests')])
                  /\ requests'[Len(requests')].text = search_term
               \/ pc = "end" /\ requests' = <<>>
       /\ session_state' # session_state
            => \/ pc = "returned"
               \/ /\ pc = "display"
                  /\ session_state'.search_term = session_state.search_term
                  /\ FetchedRows(session_state'.search_results)
                       = FetchedRows(session_state.search_results)
      ]_vars

\* a run with the cached term shows the cached rows without any request
C6_Witness ==
    /\ pc = "display"
    /\ requests = <<>>
    /\ Cached
    /\ session_state.search_term = search_term
    /\ ~IsEmpty(session_state.search_results)

\* the detail endpoint returned the record
Succeeded(response) ==
    /\ response.status = HTTP_OK
    /\ Len(response.hits) > 0
    /\ {"idkey", "title", "images", "text"} \subseteq DOMAIN response.hits[1]._source

RECURSIVE SucceededIdkeys(_)
\* the idkeys of the lookups whose response is the record, in order
SucceededIdkeys(log) ==
    IF log = <<>> THEN <<>>
    ELSE (IF Succeeded(Head(log).response) THEN <<Head(log).idkey>> ELSE <<>>)
         \o SucceededIdkeys(Tail(log))

\* the enrichment runs or has run in this script run
Enriching == pc \in {"enrich", "end"} /\ button /\ filtered_df # None

\* C7: the enrichment makes one detail lookup per row of the filtered subset, in
\* row order; the details are one record per lookup that succeeded, in the same
\* order; a failed lookup is skipped without a retry and without stopping the
\* batch, so that every row has been looked up once when the batch is over.
C7_OneDetailPerSuccess ==
    Enriching
    => /\ Len(lookups) <= Len(filtered_df.rows)
       /\ \A i \in 1..Len(lookups) : lookups[i].idkey = filtered_df.rows[i].idkey
       /\ [i \in 1..Len(details) |-> details[i].idkey] = SucceededIdkeys(lookups)
       /\ pc = "end" => /\ Len(lookups) = Len(filtered_df.rows)
                        /\ df_detailed = DataFrame(details, DetailColumns)

\* the batch is over: the first lookup failed, the second gave the only detail
C7_Witness ==
    /\ pc = "end"
    /\ Len(lookups) = 2
    /\ ~Succeeded(lookups[1].response)
    /\ Succeeded(lookups[2].response)
    /\ Len(details) = 1
    /\ details[1].idkey = lookups[2].idkey

TransportFailure(response) == response.status # HTTP_OK

NoSuchRecord(response) == response.status = HTTP_OK /\ response.hits = <<>>

\* C8: a detail lookup that gets a non-success status and one that gets a success
\* with an empty hit list both give no detail record (None); none of them raises
\* out of the batch, which goes on with the next row; the details are as many as
\* the lookups that gave a record.
C8_DetailFailureIsOmission ==
    /\ \A i \in 1..Len(lookups) :
          (TransportFailure(lookups[i].response) \/ NoSuchRecord(lookups[i].response))
          => /\ lookups[i].detail = None
             /\ pc \in {"enrich", "end"}
             /\ "exception" \notin ui
             /\ pc = "end" => Len(lookups) = Len(filtered_df.rows)
    /\ Len(details) = Cardinality({i \in 1..Len(lookups) : lookups[i].detail # None})

\* a batch with a non-success status, an empty hit list and a record
C8_Witness ==
    /\ pc = "end"
    /\ Len(details) = 1
    /\ \E i, j, k \in 1..Len(lookups) :
          /\ TransportFailure(lookups[i].response)
          /\ NoSuchRecord(lookups[j].response)
          /\ lookups[k].detail # None

RECURSIVE RowsInYears(_, _, _)
\* the rows whose title's date is in [lo-01-01, hi-12-31], in order
RowsInYears(rs, lo, hi) ==
    IF rs = <<>> THEN <<>>
    ELSE (IF lo <= DateOfTitle[Head(rs).title].year /\ DateOfTitle[Head(rs).title].year <= hi
          THEN <<Head(rs)>> ELSE <<>>)
         \o RowsInYears(Tail(rs), lo, hi)

\* C9: for the cached results and every slider range lo <= hi, the filtered rows
\* are exactly the rows whose date is in [lo-01-01, hi-12-31], bounds included.
C9_FilterIsDateRange ==
    filtered_df # None
    => filtered_df.rows = RowsInYears(session_state.search_results.rows, years[1], years[2])

\* C11: fetch_data with max_results = 0 returns the empty DataFrame without any
\* request, for every search term.
C11_ZeroMaxResultsNoRequest ==
    max_results = PyInt(0)
    => /\ requests = <<>>
       /\ pc = "returned" => ret = EmptyDataFrame

RequiredFields == {"idkey", "title", "text", "images"}

\* a raw record that lacks a required field
Malformed(record) == ~(RequiredFields \subseteq DOMAIN record._source)

\* a raw record whose title holds a date
Dated(record) ==
    /\ "title" \in DOMAIN record._source
    /\ "year" \in DOMAIN DateOfTitle[record._source.title]

\* a raw record whose title matches the pattern and is no date
BadDate(record) ==
    /\ "title" \in DOMAIN record._source
    /\ DateOfTitle[record._source.title] = Raise(ValueError)

\* C12: a raw record that lacks a required field is skipped on its own. When the
\* responses (all of them successes, none with a title that is no date) hold such
\* a record, fetch_data still returns a DataFrame, and every record of the
\* responses that has all its fields and a date in its title has its row in it.
C12_MalformedSkipped ==
    (/\ pc = "returned"
     /\ AllOK
     /\ \E j \in 1..Len(AllHits(requests)) : Malformed(AllHits(requests)[j])
     /\ \A j \in 1..Len(AllHits(requests)) : ~BadDate(AllHits(requests)[j]))
    => /\ "rows" \in DOMAIN ret
       /\ \A j \in 1..Len(AllHits(requests)) :
             (~Malformed(AllHits(requests)[j]) /\ Dated(AllHits(requests)[j]))
             => \E i \in 1..Len(ret.rows) : ret.rows[i].id = AllHits(requests)[j]._id

\* C13: extract_date is total. For the title of every record fetched it gives a
\* date or None, never an error, and no title makes fetch_data end with the
\* error of extract_date.
C13_ExtractDateTotal ==
    /\ \A j \in 1..Len(AllHits(requests)) :
          "title" \in DOMAIN AllHits(requests)[j]._source
          => \/ DateOfTitle[AllHits(requests)[j]._source.title] = None
             \/ "year" \in DOMAIN DateOfTitle[AllHits(requests)[j]._source.title]
    /\ pc = "returned" => ret # Raise(ValueError)

(***************************************************************************)
(* extract_date called on its own, on a title with an ordinal suffix after *)
(* the day and on the same title without the suffix                        *)
(***************************************************************************)
DateDays == {<<"1">>, <<"0", "1">>, <<"1", "2">>, <<"2", "9">>, <<"3", "1">>}

DateSuffixes == {<<"s", "t">>, <<"n", "d">>, <<"r", "d">>, <<"t", "h">>}

DateMonths == {<<"J", "a", "n", "u", "a", "r", "y">>,
               <<"F", "e", "b", "r", "u", "a", "r", "y">>,
               <<"m", "a", "y">>}

DateYears == {<<"1", "8", "0", "0">>, <<"1", "8", "0", "4">>, <<"0", "1", "8", "1">>}

\* what the title holds before and after the date
DateBefore == {<<>>, <<"o", "n", " ">>, <<"5">>}

DateAfter == {<<>>, <<".">>}

\* the blank between day, month and year: a space or a no-break space
DateBlanks == {" ", " "}

DateInputs == [day : DateDays, suffix : DateSuffixes, month : DateMonths, year : DateYears,
               before : DateBefore, after : DateAfter, blank : DateBlanks]

\* the title with 'd' + s + ' m y' in it
SuffixedTitle(in) ==
    in.before \o in.day \o in.suffix \o <<in.blank>> \o in.month \o <<in.blank>> \o in.year \o in.after

\* the title with 'd m y' in it
PlainTitle(in) ==
    in.before \o in.day \o <<in.blank>> \o in.month \o <<in.blank>> \o in.year \o in.after

\* one call of extract_date, on a title it was not called on before
ExtractDate(title) ==
    /\ pc = "extract"
    /\ \A i \in 1..Len(date_calls) : date_calls[i].title # title
    /\ date_calls' = Append(date_calls, [title |-> title, result |-> extract_date(title)])
    /\ UNCHANGED <<pc, date_input, ui>>
    /\ UNCHANGED fetchVars
    /\ UNCHANGED mainVars

DateInit ==
    /\ pc = "extract"
    /\ date_input \in DateInputs
    /\ date_calls = <<>>
    /\ search_term = ""
    /\ max_results = None
    /\ ui = {}
    /\ session_state = <<>>
    /\ FetchLocalsInit
    /\ MainLocalsInit

DateNext ==
    \/ ExtractDate(SuffixedTitle(date_input))
    \/ ExtractDate(PlainTitle(date_input))

DateSpec == DateInit /\ [][DateNext]_vars

\* the number of the month named m
MonthNumber(m) == CHOOSE k \in 1..Len(MonthNames) : MonthNames[k] = [i \in 1..Len(m) |-> ToLower(m[i])]

\* d, m, y form a date of the calendar
ValidDate(in) ==
    /\ StrToNat(in.year) >= 1
    /\ StrToNat(in.day) >= 1
    /\ StrToNat(in.day) <= DaysInMonth(StrToNat(in.year), MonthNumber(in.month))

\* C14: ordinal-suffix invariance. extract_date gives the same result on the title
\* with the suffix after the day and on the title without it; when d, m, y form a
\* date (and no digit stands before d), this result is the date d m y.
C14_OrdinalSuffixInvariance ==
    pc = "extract"
    => /\ \A i, j \in 1..Len(date_calls) : date_calls[i].result = date_calls[j].result
       /\ \A i \in 1..Len(date_calls) :
             (ValidDate(date_input) /\ date_input.before # <<"5">>)
             => date_calls[i].result = [year |-> StrToNat(date_input.year),
                                        month |-> MonthNumber(date_input.month),
                                        day |-> StrToNat(date_input.day)]

\* extract_date was called on 'on 12th January 1800.' and on 'on 12 January 1800.'
C14_Witness ==
    /\ pc = "extract"
    /\ Len(date_calls) = 2
    /\ date_calls[1].title = SuffixedTitle(date_input)
    /\ date_calls[2].title = PlainTitle(date_input)
    /\ date_input.before # <<>>
    /\ date_input.suffix = <<"t", "h">>
    /\ date_calls[1].result = [year |-> 1800, month |-> 1, day |-> 12]

\* the header of the claim C15 for rows enriched with their details
ClaimedHeader == RowColumns \o <<"full_text">>

\* C15: the header row of the exported table is id, index, type, idkey, text,
\* title, images, date, full_text, and the table has one row of cells for each row
\* of the enriched rows it was made from.
C15_ExportHeader ==
    excel_data # None
    => /\ excel_data.header = ClaimedHeader
       /\ Len(excel_data.cells) = Len(df_detailed.rows)

RECURSIVE IsSubseq(_, _)
\* the elements of a are elements of b, in the order they have in b
IsSubseq(a, b) ==
    IF a = <<>> THEN TRUE
    ELSE IF b = <<>> THEN FALSE
    ELSE IF Head(a) = Head(b) THEN IsSubseq(Tail(a), Tail(b))
    ELSE IsSubseq(a, Tail(b))

\* C16: row order. The rows of the DataFrame fetch_data returns after a fetch
\* without failure follow the order of the records in the responses: pages in the
\* order they were fetched, records in the order of their page.
C16_RowOrder ==
    (Returned /\ AllOK)
    => IsSubseq([i \in 1..Len(ret.rows) |-> ret.rows[i].id],
                [j \in 1..Len(AllHits(requests)) |-> AllHits(requests)[j]._id])

\* two pages were fetched, two rows come from the first and one from the second
C16_Witness ==
    /\ Returned
    /\ AllOK
    /\ Len(requests) = 2
    /\ Len(ret.rows) = 3
    /\ Len(requests[1].hits) = 2
    /\ Len(requests[2].hits) = 1
    /\ ret.rows[1].id = requests[1].hits[1]._id
    /\ ret.rows[2].id = requests[1].hits[2]._id
    /\ ret.rows[3].id = requests[2].hits[1]._id
    /\ ret.rows[1].id # ret.rows[2].id

\* C17: the cached results change only when a fetch returns: displaying them,
\* the histogram, the year range, the enrichment and the export leave the cached
\* rows and their columns as they are.
C17_CacheChangesOnlyOnFetch ==
    [][session_state' # session_state => pc = "returned"]_vars

\* the enrichment runs or is over
InEnrich == pc = "enrich" \/ (pc = "end" /\ df_detailed # None)

\* C18: progress. Every value given to a progress bar is a fraction with a
\* denominator of at least 1, in [0, 1], and the values of a bar strictly increase.
\* In fetch_data the value after page k is k / pages, and 1 after the last page of
\* a fetch that completes; in the enrichment of n rows the value after the i-th
\* lookup is i / n, whether it failed or not, and 1 after the last one.
C18_Progress ==
    /\ \A k \in 1..Len(progress) :
          /\ progress[k][2] >= 1
          /\ 0 <= progress[k][1]
          /\ progress[k][1] <= progress[k][2]
    /\ \A k \in 1..(Len(progress) - 1) :
          progress[k][1] * progress[k + 1][2] < progress[k + 1][1] * progress[k][2]
    /\ pc \in {"loop", "returned"}
         => /\ \A k \in 1..(Len(progress) - 1) : progress[k + 1] = <<k, pages>>
            /\ Len(progress) <= pages + 1
            /\ (Returned /\ AllOK /\ total_hits > 0) => progress[Len(progress)] = <<pages, pages>>
    /\ InEnrich
         => /\ Len(progress) = Len(lookups) + 1
            /\ \A i \in 1..Len(lookups) : progress[i + 1] = <<i, Len(filtered_df.rows)>>
            /\ (pc = "end" /\ Len(filtered_df.rows) >= 1)
                 => progress[Len(progress)] = <<Len(filtered_df.rows), Len(filtered_df.rows)>>

\* an enrichment of two rows is over, the first lookup failed: 0, 1/2, 2/2
C18_Witness ==
    /\ pc = "end"
    /\ df_detailed # None
    /\ Len(lookups) = 2
    /\ lookups[1].detail = None
    /\ progress = << <<0, 1>>, <<1, 2>>, <<2, 2>> >>

\* the page of the session offers the exported table for download
ArtifactHeld == "download" \in ui

\* C19: session ordering. The enrichment starts only with cached results and a
\* year range that has selected the filtered rows; every detail lookup is for a
\* row of the filtered rows; and once a table has been exported the session
\* keeps offering it in every later step, until a run with another search term.
C19_SessionOrdering ==
    [][/\ pc' \in {"enrich"}
            => /\ Cached'
               /\ ~IsEmpty(session_state'.search_results)
               /\ years' # <<>>
               /\ filtered_df' # None
       /\ (lookups' # lookups /\ lookups' # <<>>)
            => lookups'[Len(lookups')].idkey = filtered_df.rows[Len(lookups')].idkey
       /\ excel_data' # excel_data /\ excel_data' # None
            => pc = "enrich" /\ Len(lookups) = Len(filtered_df.rows)
       /\ (ArtifactHeld /\ search_term' = search_term) => ArtifactHeld'
      ]_vars

(***************************************************************************)
(* The calls with their steps taken: the code is sequential and blocking,  *)
(* so a call goes on as soon as the request it waits for is answered, and  *)
(* every request is taken to be answered (requests.get has no timeout).    *)
(* The user may stay idle for ever.                                        *)
(***************************************************************************)
FetchLiveSpec == FetchInit /\ [][FetchNext]_vars /\ WF_vars(FetchNext)

LiveSpec ==
    /\ Init
    /\ [][Next]_vars
    /\ WF_vars(FetchStep(SessionTotalHits))
    /\ WF_vars(\E response \in AllResponses : EnrichStep(response))
    /\ WF_vars(\E now \in ClockReadings : Export(now))

\* the request budget of the claim C20: the planned pages, and the request at
\* offset 0 that tells total_hits
RequestBudget == IF ClaimedPages > 1 THEN ClaimedPages ELSE 1

\* C20 (fetch_data): every call of fetch_data ends, with a DataFrame or an error,
\* for every total_hits and max_results; it never issues more requests than the
\* pages ceil(min(max_results, total_hits) / page_size) of its plan (one request
\* at least, which tells total_hits), and request k is at offset (k - 1) *
\* page_size, so that no page is requested twice.
C20_Termination ==
    /\ (pc = "fetch") ~> (pc = "returned")
    /\ [](Len(requests) <= RequestBudget)
    /\ [](\A k \in 1..Len(requests) : requests[k].from = (k - 1) * size_param)

\* the enrichment is over and every row of the filtered rows has been looked up
EnrichDone ==
    /\ pc = "end"
    /\ filtered_df # None
    /\ Len(lookups) = Len(filtered_df.rows)

\* C20 (fetch_all_details), checked under LiveSpec: the enrichment ends after one
\* lookup for each row of the filtered rows, in row order, whatever the lookups
\* answer; the fetch that main starts ends.
C20_EnrichTerminates ==
    /\ (pc = "fetch") ~> (pc = "returned")
    /\ (pc = "enrich") ~> EnrichDone
    /\ [](pc = "enrich"
            => /\ Len(lookups) <= Len(filtered_df.rows)
               /\ \A i \in 1..Len(lookups) : lookups[i].idkey = filtered_df.rows[i].idkey)

\* the years of the dates in the titles of the rows
RowYears(df) == {DateOfTitle[df.rows[i].title].year : i \in 1..Len(df.rows)}

MinOf(S) == CHOOSE x \in S : \A y \in S : x <= y

MaxOf(S) == CHOOSE x \in S : \A y \in S : y <= x

\* C21: once main has shown non-empty cached results, the slider is offered with
\* the default range [year of the earliest row date, year of the latest row date],
\* and the filter of line 215 with that range keeps every cached row.
C21_DefaultRangeCoversAll ==
    (Cached /\ "histogram" \in ui)
    => LET df == session_state.search_results
           ymin == IntOf(year_min(df))
           ymax == IntOf(year_max(df))
       IN  /\ "slider" \in ui
           /\ "int" \in DOMAIN ymin
           /\ "int" \in DOMAIN ymax
           /\ ymin.int = MinOf(RowYears(df))
           /\ ymax.int = MaxOf(RowYears(df))
           /\ Between(df, ymin.int, ymax.int).rows = df.rows

====
